---- MODULE Spec2Model ----
(***************************************************************************)
(* Snap2Sheet: the extraction client (services/geminiService), the batch   *)
(* orchestrator (App.handleImagesSelected, resetTable) and the uploader    *)
(* (components/ImageUploader) as one state machine.                        *)
(*                                                                         *)
(* JavaScript runs one task at a time, so an action is the code that runs  *)
(* between two suspension points (an await of the remote call, of a timer, *)
(* of the file reads) or one user event handler.                           *)
(*                                                                         *)
(* Texts (response texts, error messages) are sequences of lexemes: a      *)
(* lexeme is a run of characters the code never looks inside (a complete   *)
(* JSON value, a word, one whitespace character, the fence marker).        *)
(***************************************************************************)
EXTENDS Naturals, Sequences, FiniteSets, TLC

\* ------------------------------------------------------------------ bounds
\* Number of processFiles invocations (uploads or drops) in one behaviour.
MaxBatches == 2
\* Largest number of files in one upload or drop.
MaxImages == 2
\* Number of rows appended in one behaviour of the data specification.
MaxRows == 2
\* Number of exports (copy or download) in one behaviour of the data
\* specification.
MaxExports == 1

\* --------------------------------------------------------------- constants
maxRetries == 5
ThrottleMs == 5000

IDLE == "IDLE"
PROCESSING == "PROCESSING"
SUCCESS == "SUCCESS"
ERROR == "ERROR"
ExtractionStatus == {IDLE, PROCESSING, SUCCESS, ERROR}

\* The eight fixed column names (ASCII stand-ins for the source's literals,
\* in the source's order).
FIXED_HEADERS ==
  << "date", "third_party_points", "promotion", "travel_guru",
     "pulse_unionpay_extra", "red_hot_rewards", "basic_spending", "earned" >>

\* ------------------------------------------------------------ small helpers
Range(s) == {s[k] : k \in 1..Len(s)}

Last(s) == s[Len(s)]

\* String.prototype.includes on a text, for a needle that is one lexeme.
Includes(text, needle) == needle \in Range(text)

\* ----------------------------------------------------- texts and JSON values
WS == " "
\* The triple-backtick fence marker (a backtick cannot be written in a string here).
FENCE == "<fence>"
JSONTAG == "json"

ObjDate == "{\"date\":\"2024-01-01\"}"
ObjA1 == "{\"a\":1}"
ObjA2 == "{\"a\":2}"
ArrObjs == "[{\"a\":1},{\"a\":2}]"
\* An object with a fixed header, a fixed header that is null and a key that
\* is no fixed header.
ObjExtra == "{\"date\":\"2024-01-01\",\"earned\":null,\"a\":1}"
\* An object whose one value starts with a number sign: the date is #1.
ObjHash == "{\"date\":\"#1\"}"
\* An object whose values are falsy or hold separators: the date is a<TAB>b,
\* the promotion is the number 0, travel_guru is the empty string, earned is
\* the text 1,5"x" and basic_spending has two lines.
ObjEdge == "{\"date\":\"a<TAB>b\",\"promotion\":0,\"travel_guru\":\"\",\"earned\":\"1,5<Q>x<Q>\",\"basic_spending\":\"l1<LF>l2\"}"

\* The elements of the lexemes that are JSON arrays.
ArrayElems(v) ==
  CASE v = "[]" -> <<>>
    [] v = ArrObjs -> <<ObjA1, ObjA2>>
    [] v = "[0]" -> <<"0">>
    [] v = "[null]" -> <<"null">>
    [] v = "[[]]" -> <<"[]">>

ArrayLexemes == {"[]", ArrObjs, "[0]", "[null]", "[[]]"}

ObjectLexemes == {ObjDate, ObjA1, ObjA2, ObjExtra, ObjEdge, ObjHash, "{}"}

\* Lexemes that are one complete JSON value each.
JSONLexemes ==
  ObjectLexemes \cup {"0", "429", "null", "\"\""} \cup ArrayLexemes

\* JavaScript falsy values among the JSON values.
Falsy(v) == v \in {"0", "null", "\"\""}

\* String.prototype.trim
RECURSIVE TrimStart(_)
TrimStart(text) ==
  IF text # <<>> /\ Head(text) = WS THEN TrimStart(Tail(text)) ELSE text

RECURSIVE TrimEnd(_)
TrimEnd(text) ==
  IF text # <<>> /\ Last(text) = WS
  THEN TrimEnd(SubSeq(text, 1, Len(text) - 1))
  ELSE text

Trim(text) == TrimEnd(TrimStart(text))

\* text.replace(/^<fence>(json)?/, "") on a text that starts with the fence.
StripOpenFence(text) ==
  IF Len(text) >= 2 /\ text[2] = JSONTAG
  THEN SubSeq(text, 3, Len(text))
  ELSE SubSeq(text, 2, Len(text))

\* text.replace(/<fence>$/, "")
StripCloseFence(text) ==
  IF text # <<>> /\ Last(text) = FENCE
  THEN SubSeq(text, 1, Len(text) - 1)
  ELSE text

\* Lines 67-70: trim, then strip a Markdown code fence if the text starts
\* with one.
CleanText(text) ==
  LET t == Trim(text)
  IN IF t # <<>> /\ Head(t) = FENCE
     THEN Trim(StripCloseFence(StripOpenFence(t)))
     ELSE t

\* JSON.parse accepts exactly one JSON value with optional whitespace around.
JSONParses(text) ==
  LET t == Trim(text) IN Len(t) = 1 /\ t[1] \in JSONLexemes

JSONValue(text) == Trim(text)[1]

\* Lines 76-79: Array.isArray(data) ? (data[0] || {}) : data
FlatObjectWhole(data) == data

FlatObject(data) ==
  IF data \in ArrayLexemes
  THEN IF ArrayElems(data) = <<>> \/ Falsy(ArrayElems(data)[1])
       THEN "{}"
       ELSE ArrayElems(data)[1]
  ELSE data

\* --------------------------------------------------- values and properties
\* A JavaScript value as the exports and the table read it: its type and
\* the text String(value) gives, one character (or run of plain characters)
\* per lexeme.
TAB == "\t"
LF == "\n"
CR == "\r"
HASH == "#"
COMMA == ","
QUOTE == "\""

Str(text) == [t |-> "string", s |-> text]
Num(text) == [t |-> "number", s |-> text]
Null == [t |-> "null", s |-> <<"null">>]
Undefined == [t |-> "undefined", s |-> <<"undefined">>]

\* The own properties of the JSON objects, by key.
Fields(v) ==
  CASE v = ObjDate -> [k \in {"date"} |-> Str(<<"2024-01-01">>)]
    [] v = ObjA1 -> [k \in {"a"} |-> Num(<<"1">>)]
    [] v = ObjA2 -> [k \in {"a"} |-> Num(<<"2">>)]
    [] v = ObjExtra ->
         [k \in {"date", "earned", "a"} |->
            CASE k = "date" -> Str(<<"2024-01-01">>)
              [] k = "earned" -> Null
              [] k = "a" -> Num(<<"1">>)]
    [] v = ObjHash -> [k \in {"date"} |-> Str(<<HASH, "1">>)]
    [] v = ObjEdge ->
         [k \in {"date", "promotion", "travel_guru", "earned",
                 "basic_spending"} |->
            CASE k = "date" -> Str(<<"a", TAB, "b">>)
              [] k = "promotion" -> Num(<<"0">>)
              [] k = "travel_guru" -> Str(<<>>)
              [] k = "earned" -> Str(<<"1", COMMA, "5", QUOTE, "x", QUOTE>>)
              [] k = "basic_spending" -> Str(<<"l1", LF, "l2">>)]
    [] OTHER -> [k \in {} |-> Undefined]

\* Object.keys(data) for a value that has properties.
Keys(data) == DOMAIN Fields(data)

\* typeof data === 'object' && data !== null && !Array.isArray(data)
IsRecord(data) == data \in ObjectLexemes

\* data[key] on a value that is not null: a property of an object, and
\* undefined on a number, a string or an array for the keys used here.
Get(data, key) ==
  IF key \in Keys(data) THEN Fields(data)[key] ELSE Undefined

\* Reading a property of null throws a TypeError.
Indexable(data) == data # "null"

\* val !== undefined && val !== null
Present(val) == val.t \notin {"undefined", "null"}

\* The truthiness of a value.
Truthy(val) ==
  CASE val.t = "string" -> val.s # <<>>
    [] val.t = "number" -> val.s # <<"0">>
    [] OTHER -> FALSE

String(val) == val.s

\* ------------------------------------------------------ table and exports
\* Array.prototype.join on texts.
RECURSIVE Join(_, _)
Join(texts, sep) ==
  IF texts = <<>> THEN <<>>
  ELSE IF Len(texts) = 1 THEN texts[1]
  ELSE texts[1] \o <<sep>> \o Join(Tail(texts), sep)

\* ResultsTable lines 47-53: the text of the cell of one header; the
\* placeholder - stands in a cell that has no value.
Placeholder == <<"-">>

TableCell(val) == IF Present(val) THEN String(val) ELSE Placeholder

\* The cells of one table row, one per header (lines 46-54); rendering
\* throws when the row's data is null.
TableCells(row, headers) ==
  [k \in 1..Len(headers) |-> TableCell(Get(row.data, headers[k]))]

\* Line 203: String(val).replace(/[\t\n\r]/g, ' ')
ReplaceBreaks(text) ==
  [k \in 1..Len(text) |-> IF text[k] \in {TAB, LF, CR} THEN " " ELSE text[k]]

\* Line 203: val ? String(val).replace(...) : ''
TsvCell(val) == IF Truthy(val) THEN ReplaceBreaks(String(val)) ELSE <<>>

\* Lines 198-207: the text copyToClipboard writes.
Tsv(rws, headers) ==
  LET headerRow == Join([k \in 1..Len(headers) |-> <<headers[k]>>], TAB)
      dataRows ==
        Join([r \in 1..Len(rws) |->
                Join([k \in 1..Len(headers) |->
                        TsvCell(Get(rws[r].data, headers[k]))], TAB)], LF)
  IN headerRow \o <<LF>> \o dataRows

\* str.replace(/"/g, '""')
RECURSIVE DoubleQuotes(_)
DoubleQuotes(str) ==
  IF str = <<>> THEN <<>>
  ELSE (IF Head(str) = QUOTE THEN <<QUOTE, QUOTE>> ELSE <<Head(str)>>)
         \o DoubleQuotes(Tail(str))

\* Lines 216-223
EscapeCsv(val) ==
  IF ~Present(val) THEN <<>>
  ELSE LET str == String(val)
       IN IF Includes(str, COMMA) \/ Includes(str, QUOTE) \/ Includes(str, LF)
          THEN <<QUOTE>> \o DoubleQuotes(str) \o <<QUOTE>>
          ELSE str

DataUriHeader == "data:text/csv;charset=utf-8,"

\* Lines 225-230: csvContent
CsvContent(rws, headers) ==
  LET headerRow ==
        Join([k \in 1..Len(headers) |-> EscapeCsv(Str(<<headers[k]>>))], COMMA)
      dataRows ==
        Join([r \in 1..Len(rws) |->
                Join([k \in 1..Len(headers) |->
                        EscapeCsv(Get(rws[r].data, headers[k]))], COMMA)], LF)
  IN <<DataUriHeader>> \o headerRow \o <<LF>> \o dataRows

\* encodeURI on one character: it escapes the characters outside its
\* unescaped set (letters, digits and ; / ? : @ & = + $ , # - _ . ! ~ * ' ( )).
EncodeChar(c) ==
  CASE c = " " -> "%20"
    [] c = LF -> "%0A"
    [] c = CR -> "%0D"
    [] c = TAB -> "%09"
    [] c = QUOTE -> "%22"
    [] OTHER -> c

\* Line 231: encodeURI(csvContent)
EncodeURI(text) == [k \in 1..Len(text) |-> EncodeChar(text[k])]

DecodeChar(c) ==
  CASE c = "%20" -> " "
    [] c = "%0A" -> LF
    [] c = "%0D" -> CR
    [] c = "%09" -> TAB
    [] c = "%22" -> QUOTE
    [] OTHER -> c

\* Lines 232-236: the file the link downloads is the resource of the data
\* URL: the URL up to its fragment (the first number sign), without the
\* header, percent-decoded.
Downloaded(href) ==
  LET end == IF Includes(href, HASH)
             THEN (CHOOSE k \in 1..Len(href) :
                     href[k] = HASH /\ \A j \in 1..(k - 1) : href[j] # HASH) - 1
             ELSE Len(href)
  IN [k \in 1..(end - 1) |-> DecodeChar(href[k + 1])]

\* ------------------------------------------------------------------ errors
\* An error object: its class, status and code fields (0 when absent) and
\* its message.
Err(name, status, code, message) ==
  [name |-> name, status |-> status, code |-> code, message |-> message]

NoDataError == Err("Error", 0, 0, <<"No data returned from AI">>)

InvalidResponseError ==
  Err("Error", 0, 0,
      <<"Failed to parse the AI response as valid JSON. Please try again.">>)

\* The SyntaxError JSON.parse throws. Its message is the engine's: some
\* engines quote the offending source text in it (V8: Unexpected token 'S',
\* "Sorry ..." is not valid JSON), some do not.
ParseError(text, quoted) ==
  Err("SyntaxError", 0, 0,
      <<"Unexpected token">> \o (IF quoted THEN text ELSE <<>>))

\* Lines 83-86
IsRateLimit(error) ==
  \/ error.status = 429
  \/ error.code = 429
  \/ (error.message # <<>> /\ Includes(error.message, "429"))

\* Line 88: the retry condition, on the attempt count before its increment.
ShouldRetry(error, attempt) == IsRateLimit(error) /\ attempt < maxRetries

\* Line 91: the backoff after the attempt count was incremented to attempt.
BackoffDelayFromOne(attempt) == 2^attempt * 1000

BackoffDelay(attempt) == 2^(attempt + 1) * 1000

\* Lines 97-101: what the catch block throws when it does not retry.
Rethrown(error) ==
  IF error.name = "SyntaxError" THEN InvalidResponseError ELSE error

\* A remote response: the call failed with error, or it returned a response
\* whose text is absent or is text.
Failure(error) == [ok |-> FALSE, absent |-> FALSE, text |-> <<>>, error |-> error]
Answer(text) == [ok |-> TRUE, absent |-> FALSE, text |-> text, error |-> NoDataError]
NoText == [ok |-> TRUE, absent |-> TRUE, text |-> <<>>, error |-> NoDataError]

\* Lines 45-79: the try block on one response: it returns a value or throws.
TryBody(resp, quoted) ==
  IF ~resp.ok
  THEN [threw |-> TRUE, value |-> "", error |-> resp.error]
  ELSE IF resp.absent \/ resp.text = <<>>
  THEN [threw |-> TRUE, value |-> "", error |-> NoDataError]
  ELSE LET text == CleanText(resp.text)
       IN IF JSONParses(text)
          THEN [threw |-> FALSE, value |-> FlatObject(JSONValue(text)),
                error |-> NoDataError]
          ELSE [threw |-> TRUE, value |-> "", error |-> ParseError(text, quoted)]

\* ------------------------------------------------------ processing states
IdleState == [status |-> IDLE, message |-> <<>>]

\* Line 138
StartingState(n) ==
  [status |-> PROCESSING,
   message |-> <<"Starting processing of ", ToString(n), " image(s)...">>]

\* Lines 146-149: k is i + 1.
ProgressStateFromZero(k, n, fileName) ==
  [status |-> PROCESSING,
   message |-> <<"Processing ", ToString(k - 1), " of ", ToString(n), ": ", fileName>>]

ProgressState(k, n, fileName) ==
  [status |-> PROCESSING,
   message |-> <<"Processing ", ToString(k), " of ", ToString(n), ": ", fileName>>]

\* Line 178
ErrorMsg(errs) ==
  IF Len(errs) > 0 THEN <<" (", ToString(Len(errs)), " failed)">> ELSE <<>>

\* Lines 177-185
SummaryStateByErrors(count, errs, n) ==
  IF Len(errs) = 0
  THEN [status |-> SUCCESS,
        message |-> <<"Successfully processed ", ToString(count), " of ",
                      ToString(n), " images">> \o ErrorMsg(errs) \o <<".">>]
  ELSE [status |-> ERROR, message |-> <<"Failed to process selected images.">>]

SummaryState(count, errs, n) ==
  IF count > 0
  THEN [status |-> SUCCESS,
        message |-> <<"Successfully processed ", ToString(count), " of ",
                      ToString(n), " images">> \o ErrorMsg(errs) \o <<".">>]
  ELSE [status |-> ERROR, message |-> <<"Failed to process selected images.">>]

\* Line 189: the state the status-reset timer sets.
TimerStateKeep(cur) == cur

TimerState(cur) == IdleState

\* Line 162: setRows(prev => [...prev, newRow])
AppendRowFirst(prev, newRow) == <<newRow>> \o prev

AppendRowOverLast(prev, newRow) ==
  IF prev = <<>> THEN <<newRow>> ELSE [prev EXCEPT ![Len(prev)] = newRow]

AppendRow(prev, newRow) == Append(prev, newRow)

\* Lines 164-171: whether the loop goes on to the throttle pause after the
\* item at index idx of n was handled (ok: its extraction returned).
ContinuesUnlessFailed(idx, n, ok) == ok /\ idx < n - 1

ContinuesToLast(idx, n, ok) == idx < n - 2

Continues(idx, n, ok) == idx < n - 1

\* ------------------------------------------------------------------ inputs
\* The folder the user selects or drops files from, as listed: name and
\* MIME type. It holds MaxImages images and, second, a text file.
ImageA == [name |-> "a.jpg", type |-> "image/jpeg"]
TextFile == [name |-> "notes.txt", type |-> "text/plain"]
MoreImages ==
  [k \in 1..(MaxImages - 1) |->
     [name |-> "img" \o ToString(k + 1) \o ".png", type |-> "image/png"]]

Folder == <<ImageA, TextFile>> \o MoreImages

\* The selections: the first files of the folder, or the text file alone.
FileLists ==
  {SubSeq(Folder, 1, k) : k \in 1..Len(Folder)} \cup {<<TextFile>>}

IsImage(f) == f.type \in {"image/jpeg", "image/png"}

\* Line 86: Array.from(files).filter(f => f.type.startsWith('image/'))
RECURSIVE ValidFiles(_)
ValidFiles(files) ==
  IF files = <<>> THEN <<>>
  ELSE IF IsImage(Head(files))
  THEN <<Head(files).name>> \o ValidFiles(Tail(files))
  ELSE ValidFiles(Tail(files))

\* What the remote model call can come back with.
RateLimitByStatus == Err("ApiError", 429, 0, <<"Resource exhausted">>)
RateLimitByCode == Err("ApiError", 0, 429, <<"Resource exhausted">>)
RateLimitByMessage == Err("ApiError", 0, 0, <<"got status: ", "429">>)
ServerError == Err("ApiError", 500, 0, <<"Internal error">>)
\* The call itself rejects with a SyntaxError: the client library could not
\* parse the body of the HTTP response.
BodySyntaxError == Err("SyntaxError", 0, 0, <<"Unexpected end of JSON input">>)

Responses ==
  { Answer(<<ObjDate>>),
    Answer(<<FENCE, JSONTAG, WS, ObjDate, WS, FENCE>>),
    Answer(<<"Sorry, I cannot read this.">>),
    Answer(<<"Error", WS, "429">>),
    NoText,
    Failure(RateLimitByStatus),
    Failure(RateLimitByMessage),
    Failure(ServerError),
    Failure(BodySyntaxError) }

\* How a response is classed in the history.
Kind(resp) ==
  IF ~resp.ok
  THEN IF IsRateLimit(resp.error) THEN "rateLimited" ELSE "remoteError"
  ELSE IF resp.absent \/ resp.text = <<>> THEN "noText"
  ELSE IF JSONParses(CleanText(resp.text)) THEN "parsed"
  ELSE "unparsable"

\* Whether the engine's SyntaxError message quotes the text: either, when
\* the response is one JSON.parse throws on.
EngineQuotes(resp) ==
  IF Kind(resp) = "unparsable" THEN BOOLEAN ELSE {FALSE}

\* ------------------------------------------------------------------- state
Batches == 1..MaxBatches

VARIABLES
  rows,             \* App: the table, a sequence of TableRow
  processingState,  \* App: [status, message]
  nBatches,         \* number of processFiles invocations that went on to read
  pc,               \* per batch: where it is suspended
  images,           \* per batch: the file names, in submission order
  i,                \* per batch: the loop index of handleImagesSelected
  attempt,          \* per batch: attempt of the running extractDataFromImage
  processedCount,   \* per batch
  errors,           \* per batch: the failed file names
  nextId,           \* stands for generateId() and new Date(): a fresh value
  hist,             \* per batch: history of the run, read by the properties
  lastCall,         \* data specification: text and outcome of the last try block
  clipboard,        \* what copyToClipboard wrote to the system clipboard
  csvFile           \* the file downloadCSV made the browser download

vars ==
  << rows, processingState, nBatches, pc, images, i, attempt, processedCount,
     errors, nextId, hist, lastCall, clipboard, csvFile >>

\* The variables only the data specification changes.
dataVars == << lastCall, clipboard, csvFile >>

\* The history of a batch:
\*   alone    no other batch was under way when processFiles began
\*   allRL    every response of the running (or last) extractDataFromImage
\*            invocation was a rate-limited failure of the remote call
\*   calls    remote calls made by that invocation, counted while allRL
\*   waits    the backoff waits of that invocation, recorded while allRL
\*   last     the class of the last response
\*   failure  the error the remote call failed with, when the last response
\*            was a failure of the call that is not rate-limited
\*   thrown   what the last invocation threw, if it threw
\*   invoked  the extractDataFromImage invocations made: image and headers
\*   results  per handled image: how it ended and the id of its row (0: none)
\*   pauses   the throttle pauses begun, each with its length
\*   startIds ids of the rows in the table when handleImagesSelected began
\*   terminal the status set after the loop
\* It is dropped when the batch's last callback has run.
NoHist ==
  [ alone |-> FALSE, allRL |-> FALSE, calls |-> 0, waits |-> <<>>, last |-> "none",
    failure |-> NoDataError, thrown |-> NoDataError, invoked |-> <<>>,
    results |-> <<>>,
    pauses |-> <<>>, startIds |-> {}, terminal |-> "none" ]

\* No try block has run; nothing was copied or downloaded.
NoCall == [made |-> FALSE, text |-> <<>>, threw |-> FALSE, value |-> ""]

\* An export: its text and the rows it was made of.
NotWritten == [written |-> FALSE, text |-> <<>>, of |-> <<>>]

Written(text, rws) == [written |-> TRUE, text |-> text, of |-> rws]

Init ==
  /\ rows = <<>>
  /\ processingState = IdleState
  /\ nBatches = 0
  /\ pc = [b \in Batches |-> "unused"]
  /\ images = [b \in Batches |-> <<>>]
  /\ i = [b \in Batches |-> 0]
  /\ attempt = [b \in Batches |-> 0]
  /\ processedCount = [b \in Batches |-> 0]
  /\ errors = [b \in Batches |-> <<>>]
  /\ nextId = 1
  /\ hist = [b \in Batches |-> NoHist]
  /\ lastCall = NoCall
  /\ clipboard = NotWritten
  /\ csvFile = NotWritten

\* ImageUploader's disabled prop (part_000 line 302).
Disabled == processingState.status = PROCESSING

\* An extractDataFromImage call is in flight from its invocation to its
\* return or throw, its backoff waits included.
InFlight == {b \in Batches : pc[b] \in {"call", "backoff"}}

\* App's headers state: set to FIXED_HEADERS and never changed (line 133).
headers == FIXED_HEADERS

\* Line 153: extractDataFromImage(base64, headers) for the image fileName.
Invocation(fileName) == [image |-> fileName, existingHeaders |-> headers]

\* The history at the start of an extractDataFromImage invocation.
StartInvocation(h) ==
  [h EXCEPT !.allRL = TRUE, !.calls = 1, !.waits = <<>>, !.last = "none",
            !.failure = NoDataError, !.thrown = NoDataError]

\* ----------------------------------------------------------------- actions
\* handleFileChange / handleDrop, then processFiles up to its await of the
\* file reads. The input and the click are disabled with the uploader and
\* handleDrop returns when it is.
ProcessFiles ==
  /\ ~Disabled
  /\ nBatches < MaxBatches
  /\ \E files \in FileLists :
       LET validFiles == ValidFiles(files)
           b == nBatches + 1
       IN IF validFiles = <<>>
          THEN UNCHANGED vars   \* alert('Please upload valid image files.')
          ELSE /\ nBatches' = b
               /\ pc' = [pc EXCEPT ![b] = "reading"]
               /\ images' = [images EXCEPT ![b] = validFiles]
               /\ hist' = [hist EXCEPT ![b].alone =
                            \A c \in Batches : pc[c] \in {"unused", "done"}]
               /\ UNCHANGED << rows, processingState, i, attempt,
                               processedCount, errors, nextId, dataVars >>

\* The file reads of batch b complete: processFiles calls onImagesSelected,
\* and handleImagesSelected runs up to the first remote call (lines 136-153,
\* 44-61). The state set on line 138 is replaced by that of line 146 in the
\* same task.
FilesRead(b) ==
  /\ pc[b] = "reading"
  /\ Len(images[b]) # 0
  /\ LET n == Len(images[b])
         starting == StartingState(n)
     IN processingState' = ProgressState(1, n, images[b][1])
  /\ pc' = [pc EXCEPT ![b] = "call"]
  /\ i' = [i EXCEPT ![b] = 0]
  /\ attempt' = [attempt EXCEPT ![b] = 0]
  /\ processedCount' = [processedCount EXCEPT ![b] = 0]
  /\ errors' = [errors EXCEPT ![b] = <<>>]
  /\ hist' = [hist EXCEPT ![b] =
                StartInvocation([@ EXCEPT !.startIds = {r.id : r \in Range(rows)},
                                           !.invoked = <<Invocation(images[b][1])>>])]
  /\ UNCHANGED << rows, nBatches, images, nextId, dataVars >>

\* The remote call of batch b comes back with resp: the rest of the try
\* block, the catch block, and, when extractDataFromImage returns or throws,
\* the rest of the loop body of handleImagesSelected up to its next await
\* (lines 63-101, 155-190).
RemoteResponseOf(b, responses) ==
  /\ pc[b] = "call"
  /\ \E resp \in responses :
     \E quoted \in EngineQuotes(resp) :
       LET out == TryBody(resp, quoted)
           kind == Kind(resp)
           rl == hist[b].allRL /\ kind = "rateLimited"
           h1 == [hist[b] EXCEPT !.last = kind,
                                 !.failure = IF kind = "remoteError"
                                             THEN resp.error ELSE NoDataError,
                                 !.allRL = rl,
                                 !.calls = IF rl THEN @ ELSE 0,
                                 !.waits = IF rl THEN @ ELSE <<>>]
           n == Len(images[b])
           fileName == images[b][i[b] + 1]
       IN IF out.threw /\ ShouldRetry(out.error, attempt[b])
          THEN /\ attempt' = [attempt EXCEPT ![b] = @ + 1]
               /\ pc' = [pc EXCEPT ![b] = "backoff"]
               /\ hist' = [hist EXCEPT ![b] =
                    [h1 EXCEPT !.waits =
                       IF rl THEN Append(@, BackoffDelay(attempt[b] + 1)) ELSE @]]
               /\ UNCHANGED << rows, processingState, nBatches, images, i,
                               processedCount, errors, nextId, dataVars >>
          ELSE LET ok == ~out.threw
                   newRow == [id |-> nextId, data |-> out.value,
                              sourceImageName |-> fileName,
                              timestamp |-> nextId]
                   count == IF ok THEN processedCount[b] + 1
                                  ELSE processedCount[b]
                   errs == IF ok THEN errors[b] ELSE Append(errors[b], fileName)
                   tag == IF ok THEN "succeeded"
                          ELSE IF rl THEN "rateLimited"
                          ELSE "failed"
                   more == Continues(i[b], n, ok)
                   final == SummaryState(count, errs, n)
                   h2 == [h1 EXCEPT
                            !.thrown = IF ok THEN @ ELSE Rethrown(out.error),
                            !.results = Append(@, [tag |-> tag,
                                                   id |-> IF ok THEN nextId ELSE 0]),
                            !.pauses = IF more THEN Append(@, ThrottleMs) ELSE @,
                            !.terminal = IF more THEN @ ELSE final.status]
               IN /\ rows' = IF ok THEN AppendRow(rows, newRow) ELSE rows
                  /\ nextId' = IF ok THEN nextId + 1 ELSE nextId
                  /\ processedCount' = [processedCount EXCEPT ![b] = count]
                  /\ errors' = [errors EXCEPT ![b] = errs]
                  /\ hist' = [hist EXCEPT ![b] = h2]
                  /\ pc' = [pc EXCEPT ![b] = IF more THEN "throttle" ELSE "timer"]
                  /\ processingState' = IF more THEN processingState ELSE final
                  /\ attempt' = [attempt EXCEPT ![b] = 0]
                  /\ UNCHANGED << nBatches, images, i, dataVars >>

RemoteResponse(b) == RemoteResponseOf(b, Responses)

\* The backoff wait of line 93 is over: the loop of extractDataFromImage
\* makes the next remote call.
BackoffElapsed(b) ==
  /\ pc[b] = "backoff"
  /\ pc' = [pc EXCEPT ![b] = "call"]
  /\ hist' = [hist EXCEPT ![b].calls = IF hist[b].allRL THEN @ + 1 ELSE @,
                          ![b].last = "none"]
  /\ UNCHANGED << rows, processingState, nBatches, images, i, attempt,
                  processedCount, errors, nextId, dataVars >>

\* The throttle pause of line 173 is over: the next iteration runs up to its
\* remote call.
ThrottleElapsed(b) ==
  /\ pc[b] = "throttle"
  /\ i' = [i EXCEPT ![b] = @ + 1]
  /\ processingState' =
       ProgressState(i[b] + 2, Len(images[b]), images[b][i[b] + 2])
  /\ attempt' = [attempt EXCEPT ![b] = 0]
  /\ pc' = [pc EXCEPT ![b] = "call"]
  /\ hist' = [hist EXCEPT ![b] =
                StartInvocation([@ EXCEPT !.invoked =
                                   Append(@, Invocation(images[b][i[b] + 2]))])]
  /\ UNCHANGED << rows, nBatches, images, processedCount, errors, nextId, dataVars >>

\* The timer of lines 188-190 fires.
StatusResetTimer(b) ==
  /\ pc[b] = "timer"
  /\ processingState' = TimerState(processingState)
  /\ pc' = [pc EXCEPT ![b] = "done"]
  /\ images' = [images EXCEPT ![b] = <<>>]
  /\ i' = [i EXCEPT ![b] = 0]
  /\ processedCount' = [processedCount EXCEPT ![b] = 0]
  /\ errors' = [errors EXCEPT ![b] = <<>>]
  /\ hist' = [hist EXCEPT ![b] = NoHist]
  /\ UNCHANGED << rows, nBatches, attempt, nextId, dataVars >>

\* The Clear button (enabled while the table has rows) and its confirm().
ResetTable ==
  /\ Len(rows) # 0
  /\ \E confirmed \in BOOLEAN :
       IF confirmed
       THEN /\ rows' = <<>>
            /\ processingState' = IdleState
            /\ UNCHANGED << nBatches, pc, images, i, attempt, processedCount,
                            errors, nextId, hist, dataVars >>
       ELSE UNCHANGED vars

Next ==
  \/ ProcessFiles
  \/ \E b \in Batches : FilesRead(b)
  \/ \E b \in Batches : RemoteResponse(b)
  \/ \E b \in Batches : BackoffElapsed(b)
  \/ \E b \in Batches : ThrottleElapsed(b)
  \/ \E b \in Batches : StatusResetTimer(b)
  \/ ResetTable

Spec == Init /\ [][Next]_vars

\* The responses under the fair specification: success, a rate-limited failure and
\* another failure of the remote call.
LiveResponses ==
  {Answer(<<ObjDate>>), Failure(RateLimitByStatus), Failure(ServerError)}

LiveRemoteResponse(b) == RemoteResponseOf(b, LiveResponses)

LiveNext ==
  \/ ProcessFiles
  \/ \E b \in Batches : FilesRead(b)
  \/ \E b \in Batches : LiveRemoteResponse(b)
  \/ \E b \in Batches : BackoffElapsed(b)
  \/ \E b \in Batches : ThrottleElapsed(b)
  \/ \E b \in Batches : StatusResetTimer(b)
  \/ ResetTable

\* Every file read completes, every remote call comes back and every timer
\* fires; the user may stop acting.
Fairness ==
  \A b \in Batches :
    /\ WF_vars(FilesRead(b))
    /\ WF_vars(LiveRemoteResponse(b))
    /\ WF_vars(BackoffElapsed(b))
    /\ WF_vars(ThrottleElapsed(b))
    /\ WF_vars(StatusResetTimer(b))

FairSpec == Init /\ [][LiveNext]_vars /\ Fairness

\* ------------------------------------------------- the data specification
\* One image at a time, every remote call answered with a text: what
\* extractDataFromImage returns for the text and what the table and the
\* exports make of the rows. Statuses, retries and timers are those of Spec
\* and stay out of it.
OTHERTAG == "javascript"

\* The response texts: each JSON value bare, in a fence without a language
\* tag, in a fence tagged json and in a fence with another tag; and a text
\* that is no JSON.
Bare(v) == <<v>>
Fenced(v) == <<FENCE, WS, v, WS, FENCE>>
FencedJson(v) == <<FENCE, JSONTAG, WS, v, WS, FENCE>>
FencedOther(v) == <<FENCE, OTHERTAG, WS, v, WS, FENCE>>

Texts ==
  UNION {{Bare(v), Fenced(v), FencedJson(v), FencedOther(v)} : v \in JSONLexemes}
    \cup {<<"Sorry, I cannot read this.">>}

Exports ==
  (IF clipboard.written THEN 1 ELSE 0) + (IF csvFile.written THEN 1 ELSE 0)

\* The remote call for one image comes back with a text: the try block
\* (lines 63-79) and, when it returns, the success branch of the loop body
\* (lines 155-162).
Extract ==
  /\ nextId <= MaxRows
  /\ Exports = 0
  /\ \E text \in Texts :
     \E quoted \in EngineQuotes(Answer(text)) :
       LET out == TryBody(Answer(text), quoted)
           newRow == [id |-> nextId, data |-> out.value,
                      sourceImageName |-> ImageA.name,
                      timestamp |-> nextId]
       IN /\ lastCall' = [made |-> TRUE, text |-> text,
                          threw |-> out.threw, value |-> out.value]
          /\ rows' = IF out.threw THEN rows ELSE AppendRow(rows, newRow)
          /\ nextId' = IF out.threw THEN nextId ELSE nextId + 1
  /\ UNCHANGED << processingState, nBatches, pc, images, i, attempt,
                  processedCount, errors, hist, clipboard, csvFile >>

\* Reading row.data[header] throws for a row whose data is null, and the
\* handler ends there.
ExportThrows == \E r \in 1..Len(rows) : ~Indexable(rows[r].data)

\* The Copy button (lines 194-210).
CopyToClipboard ==
  /\ Len(rows) # 0
  /\ Exports < MaxExports
  /\ IF ExportThrows
     THEN UNCHANGED vars
     ELSE /\ clipboard' = Written(Tsv(rows, FIXED_HEADERS), rows)
          /\ UNCHANGED << rows, processingState, nBatches, pc, images, i,
                          attempt, processedCount, errors, nextId, hist,
                          lastCall, csvFile >>

\* The Download button (lines 212-238).
DownloadCSV ==
  /\ Len(rows) # 0
  /\ Exports < MaxExports
  /\ IF ExportThrows
     THEN UNCHANGED vars
     ELSE /\ csvFile' =
               Written(Downloaded(EncodeURI(CsvContent(rows, FIXED_HEADERS))),
                       rows)
          /\ UNCHANGED << rows, processingState, nBatches, pc, images, i,
                          attempt, processedCount, errors, nextId, hist,
                          lastCall, clipboard >>

DataNext ==
  \/ Extract
  \/ CopyToClipboard
  \/ DownloadCSV
  \/ ResetTable

DataSpec == Init /\ [][DataNext]_vars

\* ------------------------------------------------------------- properties
Running(b) == pc[b] \in {"call", "backoff", "throttle"}

\* The loop of batch b ends in this step.
LoopEnds(b) == pc[b] = "call" /\ pc'[b] = "timer"

\* The images of batch b handled so far that ended with tag.
Ended(b, tag) ==
  {k \in 1..Len(hist[b].results) : hist[b].results[k].tag = tag}

\* The position in the table of the row with this id (0: not in the table).
Pos(id) ==
  IF \E k \in 1..Len(rows) : rows[k].id = id
  THEN CHOOSE k \in 1..Len(rows) : rows[k].id = id
  ELSE 0

\* The waits the specification gives for retries 1 to 5.
Backoffs == <<4000, 8000, 16000, 32000, 64000>>

\* C1: in an invocation of extractDataFromImage whose remote calls all fail
\* as rate-limited, the waits before retries 1 to 5 are 4000, 8000, 16000,
\* 32000 and 64000 ms in that order, a wait follows each of the first five
\* failures only, and the sixth failure ends the invocation: it is thrown to
\* the caller after six remote calls, with no further wait.
C1_RetrySchedule ==
  \A b \in Batches :
    hist[b].allRL =>
      /\ hist[b].calls <= maxRetries + 1
      /\ hist[b].waits = SubSeq(Backoffs, 1, Len(hist[b].waits))
      /\ pc[b] = "call" => Len(hist[b].waits) = hist[b].calls - 1
      /\ pc[b] = "backoff" =>
           /\ Len(hist[b].waits) = hist[b].calls
           /\ hist[b].calls <= maxRetries
      /\ pc[b] \in {"throttle", "timer"} =>
           /\ hist[b].calls = maxRetries + 1
           /\ hist[b].waits = Backoffs
           /\ Last(hist[b].results).tag = "rateLimited"
           /\ IsRateLimit(hist[b].thrown)
           /\ Last(errors[b]) = images[b][Len(hist[b].results)]

\* C1 witness: a sixth consecutive rate-limited failure was thrown to the
\* batch loop after the five waits.
C1_Witness ==
  \E b \in Batches :
    /\ pc[b] \in {"throttle", "timer"}
    /\ hist[b].allRL
    /\ hist[b].calls = 6
    /\ hist[b].waits = <<4000, 8000, 16000, 32000, 64000>>
    /\ hist[b].last = "rateLimited"

\* The claim C2 is about in batch b: every image handled so far either
\* succeeded or was rate-limited on every attempt.
OnlyRateLimitedFail(b) ==
  \A k \in 1..Len(hist[b].results) :
    hist[b].results[k].tag \in {"succeeded", "rateLimited"}

\* Batch b ran with no other batch under way (the earlier ones were over
\* when it began, no later one has begun), and no row that was in the table
\* when it started or that it appended has been removed.
Undisturbed(b) ==
  /\ hist[b].alone
  /\ \A c \in Batches : c < b => pc[c] = "done"
  /\ \A c \in Batches : c > b => pc[c] = "unused"
  /\ \A id \in hist[b].startIds : Pos(id) # 0
  /\ \A k \in Ended(b, "succeeded") : Pos(hist[b].results[k].id) # 0

\* C2 as stated, for a batch that no other batch and no reset disturbs: when
\* the loop of a batch of N images ends, m of them rate-limited on every
\* attempt and the others succeeded, the table holds N - m rows.
C2_TableHoldsSuccesses ==
  [][\A b \in Batches :
       (LoopEnds(b) /\ OnlyRateLimitedFail(b)' /\ Undisturbed(b)') =>
         Len(rows') = Len(images[b]) - Cardinality(Ended(b, "rateLimited")')]_vars

\* C2 amended: when the loop of a batch of N images has ended, m of them
\* rate-limited on every attempt and the others succeeded, every image was
\* handled, each of the others had a row appended, and the batch appended
\* N - m rows and counted N - m successes and m failures; if no other batch
\* and no reset disturbed it, the table holds the rows it held when the
\* batch started and N - m more.
C2_BatchAppendsSuccesses ==
  \A b \in Batches :
    (pc[b] = "timer" /\ OnlyRateLimitedFail(b)) =>
      LET n == Len(images[b])
          m == Cardinality(Ended(b, "rateLimited"))
          ids == {hist[b].results[k].id : k \in Ended(b, "succeeded")}
      IN /\ Len(hist[b].results) = n
         /\ Cardinality(Ended(b, "succeeded")) = n - m
         /\ 0 \notin ids
         /\ Cardinality(ids) = n - m
         /\ processedCount[b] = n - m
         /\ Len(errors[b]) = m
         /\ Undisturbed(b) =>
              Len(rows) = Cardinality(hist[b].startIds) + n - m

\* C2 witness: a batch of two images ended, one rate-limited on every
\* attempt, the other with a row.
C2_Witness ==
  \E b \in Batches :
    /\ pc[b] = "timer"
    /\ Len(images[b]) = 2
    /\ Cardinality(Ended(b, "rateLimited")) = 1
    /\ Cardinality(Ended(b, "succeeded")) = 1
    /\ processedCount[b] = 1

\* C3: at most one extractDataFromImage call is in flight.
C3_OneCallInFlight == Cardinality(InFlight) <= 1

\* C4: rows are appended in submission order: of two images of a batch that
\* both succeeded, the earlier one's row was appended first and, in the
\* table, stands before the later one's; and the rows of a batch stand after
\* every row that was in the table when the batch started.
C4_RowOrder ==
  \A b \in Batches :
    LET res == hist[b].results
    IN /\ \A j, k \in 1..Len(res) :
            (j < k /\ res[j].id # 0 /\ res[k].id # 0) =>
              /\ res[j].id < res[k].id
              /\ (Pos(res[j].id) # 0 /\ Pos(res[k].id) # 0) =>
                   Pos(res[j].id) < Pos(res[k].id)
       /\ \A k \in 1..Len(res) : \A old \in hist[b].startIds :
            (Pos(res[k].id) # 0 /\ Pos(old) # 0) => Pos(old) < Pos(res[k].id)
       /\ \A k \in 1..Len(res) :
            Pos(res[k].id) # 0 =>
              rows[Pos(res[k].id)].sourceImageName = images[b][k]

\* C4 witness: the table holds a row from before the batch and the rows of
\* the batch's two images.
C4_Witness ==
  \E b \in Batches :
    /\ Len(hist[b].results) = 2
    /\ Pos(hist[b].results[1].id) # 0
    /\ Pos(hist[b].results[2].id) # 0
    /\ \E old \in hist[b].startIds : Pos(old) # 0

\* C5: the status set when the loop of a batch of N images ends with s
\* successes and f = N - s failures is Success exactly when s >= 1, its
\* message then states s of N, with the parenthetical failure count exactly
\* when f >= 1; with s = 0 it is Error.
C5_TerminalStatus ==
  [][\A b \in Batches :
       LoopEnds(b) =>
         LET n == Len(images[b])
             s == Cardinality(Ended(b, "succeeded")')
             f == n - s
             msg == processingState'.message
         IN /\ Len(hist'[b].results) = n
            /\ (processingState'.status = SUCCESS) <=> (s >= 1)
            /\ (s = 0) => processingState'.status = ERROR
            /\ (s >= 1) =>
                 /\ SubSeq(msg, 1, 5) =
                      <<"Successfully processed ", ToString(s), " of ",
                        ToString(n), " images">>
                 /\ (f >= 1) => (msg = SubSeq(msg, 1, 5) \o
                                   <<" (", ToString(f), " failed)", ".">>)
                 /\ (f = 0) => (msg = SubSeq(msg, 1, 5) \o <<".">>)]_vars

\* C5 witness: a loop ended with one success and one failure and the status
\* is the Success it set.
C5_Witness ==
  \E b \in Batches :
    /\ pc[b] = "timer"
    /\ Cardinality(Ended(b, "succeeded")) = 1
    /\ Len(errors[b]) = 1
    /\ processingState =
         [status |-> SUCCESS,
          message |-> <<"Successfully processed ", "1", " of ", "2",
                        " images", " (", "1", " failed)", ".">>]

\* The status transitions of the specification's state machine.
StatusEdges ==
  { <<IDLE, PROCESSING>>, <<PROCESSING, PROCESSING>>, <<PROCESSING, SUCCESS>>,
    <<PROCESSING, ERROR>>, <<SUCCESS, IDLE>>, <<ERROR, IDLE>> }

\* C6: the processing state changes only along the edges Idle -> Processing,
\* Processing -> Processing, Processing -> Success, Processing -> Error,
\* Success -> Idle and Error -> Idle.
C6_StatusEdges ==
  [][processingState' # processingState =>
       <<processingState.status, processingState'.status>> \in StatusEdges]_vars

\* C7: while a batch still has an image unprocessed or in flight, the status
\* is Processing.
C7_ProcessingUntilDone ==
  \A b \in Batches : Running(b) => processingState.status = PROCESSING

\* C8: every batch that has started sets a terminal status, Success or
\* Error, and after it has, the status becomes Idle.
C8_BatchEndsIdle ==
  \A b \in Batches :
    /\ Running(b) ~>
         (pc[b] = "timer" /\ hist[b].terminal \in {SUCCESS, ERROR})
    /\ (pc[b] = "timer") ~> (processingState.status = IDLE)

\* C8 witness: a batch has run to its end, its status-reset timer has fired
\* and the status is Idle.
C8_Witness ==
  \E b \in Batches : pc[b] = "done" /\ processingState.status = IDLE

\* C9: a response with no text or with text that does not parse as JSON is
\* never followed by a backoff wait (and so by no further remote call).
C9_NoRetryOnMalformed ==
  \A b \in Batches :
    hist[b].last \in {"noText", "unparsable"} => pc[b] # "backoff"

\* C10: after a response whose text does not parse as JSON the invocation
\* has thrown the invalid-AI-response error, the batch loop has recorded the
\* file as failed, and the loop goes on to the next image if there is one.
C10_InvalidResponseRaised ==
  \A b \in Batches :
    hist[b].last = "unparsable" =>
      /\ pc[b] \in {"throttle", "timer"}
      /\ hist[b].thrown = InvalidResponseError
      /\ Last(hist[b].results).tag = "failed"
      /\ Last(errors[b]) = images[b][i[b] + 1]
      /\ (i[b] < Len(images[b]) - 1) => pc[b] = "throttle"

\* C11: when the remote call fails with an error that is not rate-limited,
\* the invocation ends in that step with no backoff wait (so a failure of the
\* first call leaves the invocation with that one call), it throws that same
\* error unchanged, and the batch loop records the file as failed.
C11_RemoteFailurePropagated ==
  [][\A b \in Batches :
       (pc[b] = "call" /\ hist'[b].last = "remoteError") =>
         /\ ~IsRateLimit(hist'[b].failure)
         /\ pc'[b] \in {"throttle", "timer"}
         /\ hist'[b].waits = <<>> \/ hist'[b].waits = hist[b].waits
         /\ hist'[b].thrown = hist'[b].failure
         /\ Last(hist'[b].results).tag = "failed"
         /\ Last(errors'[b]) = images[b][i[b] + 1]]_vars

\* C15: when the loop of a batch ends with at least one failed image, the
\* status message it sets names every failed file.
C15_FailedFilesReported ==
  [][\A b \in Batches :
       (LoopEnds(b) /\ errors'[b] # <<>>) =>
         \A k \in 1..Len(errors'[b]) :
           Includes(processingState'.message, errors'[b][k])]_vars

\* C16: a batch of N images makes N - 1 pauses of 5000 ms, one after each
\* handled image but the last, whether the image succeeded or failed, and
\* none after the last; while the pause after an image is pending the call
\* for the next image has not started, and each call after the first starts
\* when the pause before it has elapsed.
C16_PausesBetweenImages ==
  \A b \in Batches :
    LET n == Len(images[b])
        handled == Len(hist[b].results)
        pauses == hist[b].pauses
    IN /\ \A k \in 1..Len(pauses) : pauses[k] = 5000
       /\ pc[b] = "throttle" =>
            /\ handled < n
            /\ Len(pauses) = handled
            /\ Len(hist[b].invoked) = handled
       /\ pc[b] \in {"call", "backoff"} =>
            /\ Len(pauses) = handled
            /\ Len(hist[b].invoked) = Len(pauses) + 1
       /\ pc[b] = "timer" =>
            /\ handled = n
            /\ Len(pauses) = n - 1
            /\ Len(hist[b].invoked) = n

\* C16 witness: a batch of two images ended, the first image failed, and
\* one pause of 5000 ms was made.
C16_Witness ==
  \E b \in Batches :
    /\ pc[b] = "timer"
    /\ Len(images[b]) = 2
    /\ hist[b].results[1].tag # "succeeded"
    /\ hist[b].pauses = <<5000>>

\* C17: within a batch the invocations of extractDataFromImage are for the
\* images in submission order, one per image, each with FIXED_HEADERS, and
\* the step that makes the invocation for the i-th of N images sets the
\* status to Processing with the message Processing i of N: file name.
C17_OneInvocationPerImage ==
  [][\A b \in Batches :
       LET invoked == hist'[b].invoked
           n == Len(images'[b])
       IN /\ Len(invoked) <= n
          /\ \A k \in 1..Len(invoked) :
               /\ invoked[k].image = images'[b][k]
               /\ invoked[k].existingHeaders = FIXED_HEADERS
          /\ pc'[b] = "timer" => Len(invoked) = n
          /\ Len(invoked) = Len(hist[b].invoked) + 1 =>
               /\ pc'[b] = "call"
               /\ processingState' =
                    [status |-> PROCESSING,
                     message |-> <<"Processing ", ToString(Len(invoked)), " of ",
                                   ToString(n), ": ", images'[b][Len(invoked)]>>]]_vars

\* C17 witness: the invocation for the second of two images is under way
\* and the status is the progress message of the second image.
C17_Witness ==
  \E b \in Batches :
    /\ pc[b] = "call"
    /\ Len(hist[b].invoked) = 2
    /\ processingState.status = PROCESSING
    /\ processingState.message =
         <<"Processing ", "2", " of ", "2", ": ", "img2.png">>

\* Batch b's extractDataFromImage returns a value in this step.
Succeeds(b) ==
  /\ pc[b] = "call"
  /\ pc'[b] \in {"throttle", "timer"}
  /\ Last(hist'[b].results).tag = "succeeded"

\* C18: a step changes the table only by appending one new row at its end,
\* when an extraction returned, or by emptying it, when the user confirmed
\* the reset; every extraction that returns appends its row; so a row in
\* the table keeps its fields and its place among the rows until a reset.
C18_RowsAppendedOrCleared ==
  [][/\ rows' # rows =>
          \/ /\ \E b \in Batches : Succeeds(b)
             /\ Len(rows') = Len(rows) + 1
             /\ SubSeq(rows', 1, Len(rows)) = rows
             /\ \A k \in 1..Len(rows) : rows[k].id # Last(rows').id
          \/ /\ rows' = <<>>
             /\ pc' = pc
             /\ processingState' = IdleState
     /\ \A b \in Batches :
          Succeeds(b) =>
            /\ Len(rows') = Len(rows) + 1
            /\ Last(rows').id = Last(hist'[b].results).id
            /\ Last(rows').sourceImageName = images[b][i[b] + 1]]_vars

\* C18 witness: two batches have run to their end and the table holds two
\* rows, the earlier one first.
C18_Witness ==
  /\ \A b \in Batches : pc[b] = "done"
  /\ Len(rows) = 2
  /\ rows[1].id < rows[2].id

\* The JSON value inside a response text.
Inner(text) == SelectSeq(text, LAMBDA x : x \in JSONLexemes)

\* The last try block returned a value.
Returned == lastCall.made /\ ~lastCall.threw

\* C12: the keys of the record extractDataFromImage returns, called with
\* FIXED_HEADERS, are among FIXED_HEADERS, and so are the data keys of every
\* row of the table.
C12_KeysAmongHeaders ==
  /\ Returned => Keys(lastCall.value) \subseteq Range(FIXED_HEADERS)
  /\ \A k \in 1..Len(rows) : Keys(rows[k].data) \subseteq Range(FIXED_HEADERS)

\* The last try block parsed a JSON list.
ReturnedFromList ==
  /\ Returned
  /\ JSONValue(CleanText(lastCall.text)) \in ArrayLexemes

\* C13 as stated: when the parsed response is a JSON list, the value
\* returned is the list's first element whatever it is, and it is the empty
\* record exactly when the list is empty.
C13_FirstElementWhateverItIs ==
  ReturnedFromList =>
    LET elems == ArrayElems(JSONValue(CleanText(lastCall.text)))
    IN /\ elems # <<>> => lastCall.value = elems[1]
       /\ lastCall.value = "{}" <=> elems = <<>>

\* C13 amended: when the parsed response is a JSON list, the value returned
\* is the list's first element if the list has one and it is truthy, and
\* the empty record if the list is empty or its first element is falsy
\* (null, 0, the empty string).
C13_FirstElementOrEmptyRecord ==
  ReturnedFromList =>
    LET elems == ArrayElems(JSONValue(CleanText(lastCall.text)))
    IN /\ (elems # <<>> /\ ~Falsy(elems[1])) => lastCall.value = elems[1]
       /\ elems = <<>> => lastCall.value = "{}"
       /\ (elems # <<>> /\ Falsy(elems[1])) => lastCall.value = "{}"

\* C13 witness: the list of two objects gave its first object.
C13_Witness ==
  /\ Returned
  /\ Inner(lastCall.text) = <<ArrObjs>>
  /\ lastCall.value = ObjA1
  /\ rows # <<>> /\ Last(rows).data = ObjA1

\* C14: a response that wraps a JSON text in a code fence, with no language
\* tag or with any language tag, gives what the bare JSON text gives.
C14_FenceStripped ==
  (lastCall.made /\ Head(lastCall.text) = FENCE) =>
    LET bare == TryBody(Answer(Inner(lastCall.text)), FALSE)
    IN /\ lastCall.threw = bare.threw
       /\ lastCall.value = bare.value

\* C19: the value extractDataFromImage returns for a text that parses as
\* JSON is a key-value record, and so is the data of every row.
C19_ReturnsRecord ==
  /\ Returned => IsRecord(lastCall.value)
  /\ \A k \in 1..Len(rows) : IsRecord(rows[k].data)

\* A reader of the exports: the pieces of a text between separators.
RECURSIVE SplitOn(_, _)
SplitOn(text, sep) ==
  IF ~Includes(text, sep) THEN <<text>>
  ELSE LET k == CHOOSE k \in 1..Len(text) :
                  text[k] = sep /\ \A j \in 1..(k - 1) : text[j] # sep
       IN <<SubSeq(text, 1, k - 1)>> \o SplitOn(SubSeq(text, k + 1, Len(text)), sep)

\* A reader of CSV files: the records of a text, each a sequence of cells;
\* a cell that opens with a quote runs to its closing quote, and a doubled
\* quote inside it is one quote.
RECURSIVE CsvParse(_, _, _, _, _)
CsvParse(rest, inQuotes, cell, rec, recs) ==
  IF rest = <<>> THEN Append(recs, Append(rec, cell))
  ELSE LET c == Head(rest)
       IN IF inQuotes
          THEN IF c = QUOTE
               THEN IF Len(rest) >= 2 /\ rest[2] = QUOTE
                    THEN CsvParse(Tail(Tail(rest)), TRUE, Append(cell, QUOTE),
                                  rec, recs)
                    ELSE CsvParse(Tail(rest), FALSE, cell, rec, recs)
               ELSE CsvParse(Tail(rest), TRUE, Append(cell, c), rec, recs)
          ELSE IF c = QUOTE /\ cell = <<>>
               THEN CsvParse(Tail(rest), TRUE, cell, rec, recs)
          ELSE IF c = COMMA
               THEN CsvParse(Tail(rest), FALSE, <<>>, Append(rec, cell), recs)
          ELSE IF c = LF
               THEN CsvParse(Tail(rest), FALSE, <<>>, <<>>,
                             Append(recs, Append(rec, cell)))
          ELSE CsvParse(Tail(rest), FALSE, Append(cell, c), rec, recs)

CsvRecords(text) == CsvParse(text, FALSE, <<>>, <<>>, <<>>)

HeaderCells == [k \in 1..Len(FIXED_HEADERS) |-> <<FIXED_HEADERS[k]>>]

\* The texts of the values data has under keys that are no fixed header.
ExtraTexts(data) ==
  {String(Fields(data)[e]) : e \in Keys(data) \ Range(FIXED_HEADERS)}

\* cells are the cells of a row made of data: one per fixed header, none of
\* them the value of a key that is no fixed header, the cell of a header
\* that is missing or null in data is empty, and the cell of a header whose
\* value shown(val) holds is text(val).
CellsOfHeaders(cells, data, empty, shown(_), text(_)) ==
  /\ Len(cells) = Len(FIXED_HEADERS)
  /\ \A k \in 1..Len(cells) :
       LET val == Get(data, FIXED_HEADERS[k])
       IN /\ cells[k] \notin ExtraTexts(data)
          /\ ~Present(val) => cells[k] = empty
          /\ shown(val) => cells[k] = text(val)

BrokenText(val) == ReplaceBreaks(String(val))

\* C20: the table, the TSV text on the clipboard and the downloaded CSV
\* file hold, for every row, one cell per fixed header in the order of the
\* fixed headers; no value of a key that is no fixed header is in them, and
\* the cell of a fixed header that is missing or null in the row's data is
\* empty (in the table: shows the placeholder of a cell without value).
\* Stated for tables whose rows can be read (no row's data is null).
C20_OneCellPerHeader ==
  /\ ~ExportThrows =>
       \A r \in 1..Len(rows) :
         CellsOfHeaders(TableCells(rows[r], FIXED_HEADERS), rows[r].data,
                        Placeholder, Present, String)
  /\ clipboard.written =>
       LET lines == SplitOn(clipboard.text, LF)
       IN /\ Len(lines) = Len(clipboard.of) + 1
          /\ SplitOn(lines[1], TAB) = HeaderCells
          /\ \A r \in 1..Len(clipboard.of) :
               CellsOfHeaders(SplitOn(lines[r + 1], TAB), clipboard.of[r].data,
                              <<>>, Truthy, BrokenText)
  /\ csvFile.written =>
       LET recs == CsvRecords(csvFile.text)
       IN /\ Len(recs) = Len(csvFile.of) + 1
          /\ recs[1] = HeaderCells
          /\ \A r \in 1..Len(csvFile.of) :
               CellsOfHeaders(recs[r + 1], csvFile.of[r].data,
                              <<>>, Present, String)

\* The value is absent, null or the empty string.
NoValue(val) == ~Present(val) \/ (val.t = "string" /\ val.s = <<>>)

\* C21: for every row and fixed header, the TSV cell copyToClipboard wrote
\* is empty exactly when the CSV cell escapeCsv gives for the same value is
\* empty, and that is exactly when the value is absent, null or the empty
\* string; every other value, the number 0 included, is in both cells.
C21_SameEmptyCells ==
  clipboard.written =>
    LET lines == SplitOn(clipboard.text, LF)
    IN \A r \in 1..Len(clipboard.of) :
         LET cells == SplitOn(lines[r + 1], TAB)
         IN \A k \in 1..Len(FIXED_HEADERS) :
              LET val == Get(clipboard.of[r].data, FIXED_HEADERS[k])
                  csvCell == EscapeCsv(val)
              IN /\ cells[k] = <<>> <=> csvCell = <<>>
                 /\ cells[k] = <<>> <=> NoValue(val)
                 /\ ~NoValue(val) =>
                      /\ cells[k] = BrokenText(val)
                      /\ csvCell # <<>>

====
